---------------------------- MODULE Spec2Model ----------------------------
(***************************************************************************)
(* The Telex code-helper agent: the JSON-RPC endpoint /a2a/lingflow and    *)
(* the flat endpoint /a2a/agent/codeHelper of src/app.py, and the          *)
(* /a2a/agent/codeHelper endpoint of src/telex_code_helper.py.             *)
(*                                                                         *)
(* A Python str is a sequence of one-character strings, so that `in`,      *)
(* lower(), strip(), split() and join() are computed as Python computes    *)
(* them.  A long literal block that no code inspects is one opaque atom    *)
(* of such a sequence (emoji glyphs are left out of the atoms).            *)
(* A Python/JSON value is a record tagged by its type in field t.          *)
(***************************************************************************)
EXTENDS Integers, Sequences, FiniteSets, TLC

VARIABLES pc, served, req, resp, calls, branch, agent

vars == <<pc, served, req, resp, calls, branch, agent>>

---------------------------------------------------------------------------
(* Bounds of the model *)

\* requests handled in one behaviour
MaxRequests == 2
\* parts in the parts array of a JSON-RPC message
MaxParts == 2
\* phrases joined into the message of a flat request
MaxFrags == 2
\* the most snippets a code body given to an analyzer is made of
MaxSnippets == 2

---------------------------------------------------------------------------
(* Python str operations *)

UpperLetters == <<"A","B","C","D","E","F","G","H","I","J","K","L","M","N","O","P","Q","R","S","T","U","V","W","X","Y","Z">>
LowerLetters == <<"a","b","c","d","e","f","g","h","i","j","k","l","m","n","o","p","q","r","s","t","u","v","w","x","y","z">>

Whitespace == {" ", "\n", "\t", "\r", "\f"}

IndexIn(letters, c) == CHOOSE i \in 1..Len(letters) : letters[i] = c

LowerChar(c) ==
  IF \E i \in 1..Len(UpperLetters) : UpperLetters[i] = c
  THEN LowerLetters[IndexIn(UpperLetters, c)] ELSE c

UpperChar(c) ==
  IF \E i \in 1..Len(LowerLetters) : LowerLetters[i] = c
  THEN UpperLetters[IndexIn(LowerLetters, c)] ELSE c

\* str.lower()
Lower(s) == [i \in 1..Len(s) |-> LowerChar(s[i])]

\* str.upper()
Upper(s) == [i \in 1..Len(s) |-> UpperChar(s[i])]

\* k in s
Contains(s, k) ==
  \E i \in 1..(Len(s) - Len(k) + 1) : SubSeq(s, i, i + Len(k) - 1) = k

RECURSIVE LStrip(_)
LStrip(s) == IF s # <<>> /\ Head(s) \in Whitespace THEN LStrip(Tail(s)) ELSE s

RECURSIVE RStrip(_)
RStrip(s) ==
  IF s # <<>> /\ s[Len(s)] \in Whitespace
  THEN RStrip(SubSeq(s, 1, Len(s) - 1)) ELSE s

\* str.strip()
Strip(s) == RStrip(LStrip(s))

\* sep.join(strs)
RECURSIVE Join(_, _)
Join(sep, strs) ==
  IF strs = <<>> THEN <<>>
  ELSE IF Len(strs) = 1 THEN strs[1]
  ELSE strs[1] \o sep \o Join(sep, Tail(strs))

\* str.title(): a letter that follows a letter is lowered, any other letter
\* is raised
IsLetter(c) ==
  \E i \in 1..Len(UpperLetters) : UpperLetters[i] = c \/ LowerLetters[i] = c

Title(s) ==
  [i \in 1..Len(s) |->
     IF i > 1 /\ IsLetter(s[i - 1]) THEN LowerChar(s[i]) ELSE UpperChar(s[i])]

\* str.split(sep) for a one-character sep
RECURSIVE SplitOn(_, _)
SplitOn(sep, s) ==
  IF \A i \in 1..Len(s) : s[i] # sep THEN <<s>>
  ELSE LET i == CHOOSE i \in 1..Len(s) :
                  s[i] = sep /\ \A j \in 1..(i - 1) : s[j] # sep
       IN <<SubSeq(s, 1, i - 1)>> \o SplitOn(sep, SubSeq(s, i + 1, Len(s)))

\* str.split(): the maximal runs of non-whitespace
RECURSIVE Words(_)
Words(s) ==
  LET t == LStrip(s) IN
  IF t = <<>> THEN <<>>
  ELSE IF \A i \in 1..Len(t) : t[i] \notin Whitespace THEN <<t>>
  ELSE LET i == CHOOSE i \in 1..Len(t) :
                  t[i] \in Whitespace /\ \A j \in 1..(i - 1) : t[j] \notin Whitespace
       IN <<SubSeq(t, 1, i - 1)>> \o Words(SubSeq(t, i, Len(t)))

---------------------------------------------------------------------------
(* Python / JSON values *)

JNull == [t |-> "null"]
JBool(b) == [t |-> "bool", v |-> b]
JNum(n) == [t |-> "num", v |-> n]
JStr(s) == [t |-> "str", v |-> s]
JArr(a) == [t |-> "arr", v |-> a]
JObj(f) == [t |-> "obj", v |-> f]
\* str(uuid.uuid4()): the k-th identifier drawn while handling request n
Uuid(n, k) == [t |-> "uuid", v |-> <<n, k>>]

EmptyStr == JStr(<<>>)
EmptyArr == JArr(<<>>)
EmptyObj == JObj(<<>>)

\* a body that is not JSON
Malformed == [t |-> "malformed"]

IsObj(j) == j.t = "obj"
IsStr(j) == j.t = "str"

\* bool(x)
Truthy(j) ==
  CASE j.t = "null" -> FALSE
    [] j.t = "bool" -> j.v
    [] j.t = "num" -> j.v # 0
    [] j.t = "str" -> j.v # <<>>
    [] j.t = "arr" -> j.v # <<>>
    [] j.t = "obj" -> DOMAIN j.v # {}
    [] OTHER -> TRUE

\* dict.get(key, default)
Get(d, key, default) == IF key \in DOMAIN d.v THEN d.v[key] ELSE default

\* `for x in value` visits something (a TypeError otherwise)
Iterable(j) == j.t \in {"arr", "str", "obj"}

\* what `for x in value` visits: the elements of a list, the characters of
\* a str, the keys of a dict (each key a str)
Iterate(j) ==
  CASE j.t = "arr" -> j.v
    [] j.t = "str" -> [i \in 1..Len(j.v) |-> JStr(<<j.v[i]>>)]
    [] j.t = "obj" -> [i \in 1..Cardinality(DOMAIN j.v) |-> JStr(<<"key">>)]

---------------------------------------------------------------------------
(* src/app.py: the agent and the reply texts *)

AgentIdentity == [name |-> "Python Code Helper", version |-> "1.0.0"]

GuidanceText == <<"P","l","e","a","s","e"," ","p","r","o","v","i","d","e"," ","a"," ","m","e","s","s","a","g","e"," ","f","o","r"," ","a","n","a","l","y","s","i","s",".">>
AnalysisReadyText == <<"**Code Analysis Ready** I can analyze your code! **How to use:** ... **Example:** ...">>
HelpText == <<"**Code Helper Agent - Help** **I can help you with:** Code Analysis, Concept Explanations, Best Practices **Try these commands:** ...">>
WelcomeText == <<"**Welcome to Code Helper!** I'm your AI programming assistant. ... Type 'help' to see options!">>
EmptyRequestText == <<"E","m","p","t","y"," ","r","e","q","u","e","s","t"," ","r","e","c","e","i","v","e","d","."," ","P","l","e","a","s","e"," ","p","r","o","v","i","d","e"," ","v","a","l","i","d"," ","J","S","O","N","-","R","P","C"," ","2",".","0"," ","d","a","t","a",".">>
UnknownMethodText == <<"U","n","k","n","o","w","n"," ","m","e","t","h","o","d","."," ","U","s","e"," ","'","m","e","s","s","a","g","e","/","s","e","n","d","'"," ","o","r"," ","'","h","e","l","p","'",".">>
ErrorTextPrefix == <<"E","r","r","o","r"," ","p","r","o","c","e","s","s","i","n","g"," ","r","e","q","u","e","s","t",":"," ">>
MessageSend == <<"m","e","s","s","a","g","e","/","s","e","n","d">>

ConceptKeys == <<<<"o","o","p">>, <<"a","p","i">>, <<"r","e","s","t">>, <<"m","v","c">>, <<"d","o","c","k","e","r">>, <<"g","i","t">>>>

\* the explanations of the concepts, each one atom
ConceptTexts ==
  <<"Object-Oriented Programming organizes code around objects with properties and methods. It uses concepts like encapsulation, inheritance, and polymorphism.",
    "API (Application Programming Interface) allows different software to communicate. REST APIs use HTTP methods like GET, POST, PUT, DELETE.",
    "REST is an architectural style for building web services using HTTP methods. It's stateless and uses standard HTTP status codes.",
    "MVC (Model-View-Controller) separates application into three components: Model (data), View (UI), Controller (logic).",
    "Docker containers package applications with all dependencies, ensuring consistency across environments.",
    "Git is a distributed version control system for tracking code changes. It allows branching, merging, and collaboration.">>

\* CodeHelperAgent.explain_concept of app.py: concepts.get(concept.lower(), default)
explain_concept(concept) ==
  LET key == Lower(concept) IN
  IF \E i \in 1..Len(ConceptKeys) : ConceptKeys[i] = key
  THEN <<ConceptTexts[IndexIn(ConceptKeys, key)]>>
  ELSE concept \o <<" ","i","s"," ","a"," ","p","r","o","g","r","a","m","m","i","n","g"," ","c","o","n","c","e","p","t"," ","w","o","r","t","h"," ","l","e","a","r","n","i","n","g","!"," ","I"," ","c","a","n"," ","e","x","p","l","a","i","n"," ","O","O","P",","," ","A","P","I",","," ","R","E","S","T",","," ","M","V","C",","," ","D","o","c","k","e","r",","," ","G","i","t",".">>

\* the explanation keywords with "how does" among them
ExplainKeywordsWithHowDoes == <<<<"e","x","p","l","a","i","n">>, <<"w","h","a","t"," ","i","s">>, <<"t","e","l","l"," ","m","e"," ","a","b","o","u","t">>, <<"h","o","w"," ","d","o","e","s">>>>

AnalyzeKeywords == <<<<"a","n","a","l","y","z","e">>, <<"r","e","v","i","e","w">>, <<"c","h","e","c","k"," ","c","o","d","e">>>>
ExplainKeywords == <<<<"e","x","p","l","a","i","n">>, <<"w","h","a","t"," ","i","s">>, <<"t","e","l","l"," ","m","e"," ","a","b","o","u","t">>>>
HelpKeywords == <<<<"h","e","l","p">>>>

\* any(word in text for word in words)
AnyIn(words, text) == \E i \in 1..Len(words) : Contains(text, words[i])

\* no guard at all
EmptyGuardMissing(user_message) == FALSE

\* the guard `if not user_message`
EmptyGuard(user_message) == user_message = <<>>

Digits == <<"0","1","2","3","4","5","6","7","8","9">>

\* str(n) of an f-string, n >= 0
RECURSIVE Decimal(_)
Decimal(n) ==
  IF n < 10 THEN <<Digits[n + 1]>>
  ELSE Decimal(n \div 10) \o <<Digits[(n % 10) + 1]>>

AppLongCodeSuggestion == "Consider breaking code into smaller functions"

\* the lists of CodeHelperAgent.analyze_code of app.py
AppFindings(code, language) ==
  LET python == Lower(language) = <<"p","y","t","h","o","n">>
      star == python /\ Contains(code, <<"i","m","p","o","r","t"," ","*">>)
      eval == python /\ Contains(code, <<"e","v","a","l","(">>)
      bare == python /\ Contains(code, <<"e","x","c","e","p","t",":">>)
      lines == SplitOn("\n", code)
  IN [issues |->
        (IF star THEN <<"Avoid 'import *' - it pollutes namespace">> ELSE <<>>)
        \o (IF eval THEN <<"eval() can be dangerous">> ELSE <<>>)
        \o (IF bare THEN <<"Bare except clause">> ELSE <<>>),
      suggestions |->
        (IF star THEN <<"Import specific functions instead">> ELSE <<>>)
        \o (IF eval THEN <<"Use ast.literal_eval() or safer alternatives">> ELSE <<>>)
        \o (IF bare THEN <<"Catch specific exceptions">> ELSE <<>>)
        \o (IF Len(lines) > 50 THEN <<AppLongCodeSuggestion>> ELSE <<>>),
      line_count |-> Len(lines)]

\* CodeHelperAgent.analyze_code of app.py: the dict returned, or the
\* exception that leaves the method; language is a Python value
app_analyze_code(code, language) ==
  IF Strip(code) = <<>> THEN [fault |-> FALSE, dict |-> [analysis |-> <<"N","o"," ","c","o","d","e"," ","p","r","o","v","i","d","e","d">>]]
  ELSE IF ~IsStr(language) THEN [fault |-> TRUE, dict |-> <<>>]
  ELSE LET found == AppFindings(code, language.v) IN
       [fault |-> FALSE,
        dict |-> [analysis |-> <<"A","n","a","l","y","z","e","d"," ">> \o language.v \o <<" ","c","o","d","e"," ","w","i","t","h"," ">>
                                 \o Decimal(found.line_count) \o <<" ","l","i","n","e","s">>]
                 @@ found]

\* process_user_message of app.py: the reply text, with the branch taken and
\* the collaborators it used
process_user_message(user_message) ==
  IF EmptyGuard(user_message)
  THEN [text |-> GuidanceText, branch |-> "empty", calls |-> {}]
  ELSE
    LET user_message_lower == Lower(user_message) IN
    IF AnyIn(AnalyzeKeywords, user_message_lower)
    THEN [text |-> AnalysisReadyText, branch |-> "Analyze", calls |-> {"keywords"}]
    ELSE IF AnyIn(ExplainKeywords, user_message_lower)
    THEN
      LET hits == {i \in 1..Len(ConceptKeys) : Contains(user_message_lower, ConceptKeys[i])}
          found_concept ==
            IF hits = {} THEN <<"p","r","o","g","r","a","m","m","i","n","g">>
            ELSE ConceptKeys[CHOOSE i \in hits : \A j \in hits : i <= j]
      IN [text |-> <<"**">> \o Upper(found_concept) \o <<" ","E","x","p","l","a","n","a","t","i","o","n","*","*","\n","\n">>
                     \o explain_concept(found_concept),
          branch |-> "Explain", calls |-> {"keywords", "explain_concept"}]
    ELSE IF AnyIn(HelpKeywords, user_message_lower)
    THEN [text |-> HelpText, branch |-> "Help", calls |-> {"keywords"}]
    ELSE [text |-> WelcomeText, branch |-> "General", calls |-> {"keywords"}]

---------------------------------------------------------------------------
(* src/app.py: extract_user_message *)

NoFault(texts) == [fault |-> FALSE, texts |-> texts]
Fault == [fault |-> TRUE, texts |-> <<>>]

KindText == JStr(<<"t","e","x","t">>)
KindData == JStr(<<"d","a","t","a">>)

\* the inner loop over data_items: the texts appended, or a fault (an item
\* without .get)
RECURSIVE CollectItems(_)
CollectItems(items) ==
  IF items = <<>> THEN NoFault(<<>>)
  ELSE
    LET item == Head(items) IN
    IF ~IsObj(item) THEN Fault
    ELSE
      LET rest == CollectItems(Tail(items)) IN
      IF rest.fault THEN Fault
      ELSE IF Get(item, "kind", JNull) = KindText
      THEN NoFault(<<Get(item, "text", EmptyStr)>> \o rest.texts)
      ELSE rest

\* one iteration of the loop over parts
CollectPart(part) ==
  IF ~IsObj(part) THEN Fault
  ELSE IF Get(part, "kind", JNull) = KindText
  THEN NoFault(<<Get(part, "text", EmptyStr)>>)
  ELSE IF Get(part, "kind", JNull) = KindData
  THEN
    LET data_items == Get(part, "data", EmptyArr) IN
    IF ~Iterable(data_items) THEN Fault ELSE CollectItems(Iterate(data_items))
  ELSE NoFault(<<>>)

\* the loop over parts
RECURSIVE CollectParts(_)
CollectParts(parts) ==
  IF parts = <<>> THEN NoFault(<<>>)
  ELSE
    LET first == CollectPart(Head(parts)) IN
    IF first.fault THEN Fault
    ELSE
      LET rest == CollectParts(Tail(parts)) IN
      IF rest.fault THEN Fault ELSE NoFault(first.texts \o rest.texts)

\* ' '.join(filter(None, message_texts)).strip()
JoinTexts(message_texts) ==
  LET kept == SelectSeq(message_texts, Truthy) IN
  Strip(Join(<<" ">>, [i \in 1..Len(kept) |-> kept[i].v]))

\* extract_user_message: any exception is caught and gives ""
extract_user_message(data) ==
  IF ~IsObj(data) THEN <<>>
  ELSE
    LET params == Get(data, "params", EmptyObj) IN
    IF ~IsObj(params) THEN <<>>
    ELSE
      LET message_obj == Get(params, "message", EmptyObj) IN
      IF ~IsObj(message_obj) THEN <<>>
      ELSE
        LET parts == Get(message_obj, "parts", EmptyArr) IN
        IF ~Iterable(parts) THEN <<>>
        ELSE
          LET got == CollectParts(Iterate(parts)) IN
          IF got.fault THEN <<>>
          ELSE IF \E i \in 1..Len(got.texts) :
                    Truthy(got.texts[i]) /\ ~IsStr(got.texts[i])
          THEN <<>>
          ELSE JoinTexts(got.texts)

---------------------------------------------------------------------------
(* src/app.py: create_jsonrpc_response *)

\* a default that leaves the Task as it was submitted
DefaultStateSubmitted == "submitted"

\* the default of the parameter state
DefaultState == "completed"

TextPart(text) == [kind |-> "text", text |-> text, data |-> JNull, file_url |-> JNull]

\* an entry that is never tied to a Task
MessageEntryUntied(role, text, messageId, taskId) ==
  [kind |-> "message", role |-> role, parts |-> <<TextPart(text)>>,
   messageId |-> messageId, taskId |-> JNull, metadata |-> JNull]

MessageEntry(role, text, messageId, taskId) ==
  [kind |-> "message", role |-> role, parts |-> <<TextPart(text)>>,
   messageId |-> messageId, taskId |-> taskId, metadata |-> JNull]

\* the test without its state conjunct
EchoesUserAnyState(user_message, state) == Truthy(user_message)

\* `if user_message and state == "completed"`
EchoesUser(user_message, state) == Truthy(user_message) /\ state = "completed"

\* request_id or ""
IdOrEmpty(request_id) == IF Truthy(request_id) THEN request_id ELSE EmptyStr

\* an artifacts list that leaves out an artifact without text
ArtifactsOfNonEmptyReply(response_text, artifactId) ==
  IF response_text = <<>> THEN <<>>
  ELSE <<[artifactId |-> artifactId, name |-> "assistantResponse",
          parts |-> <<TextPart(response_text)>>]>>

\* the list `artifacts`
Artifacts(response_text, artifactId) ==
  <<[artifactId |-> artifactId, name |-> "assistantResponse",
     parts |-> <<TextPart(response_text)>>]>>

\* create_jsonrpc_response; n is the ordinal of the request being handled,
\* which names the uuids drawn and is the reading of the clock
create_jsonrpc_response(request_id, response_text, user_message, state, n) ==
  LET task_id == Uuid(n, 1)
      context_id == Uuid(n, 2)
      u == IF EchoesUser(user_message, state) THEN 1 ELSE 0
      history ==
        (IF EchoesUser(user_message, state)
         THEN <<MessageEntry("user", user_message.v, Uuid(n, 3), JNull)>>
         ELSE <<>>)
        \o <<MessageEntry("agent", response_text, Uuid(n, 3 + u), task_id)>>
      artifacts == Artifacts(response_text, Uuid(n, 4 + u))
  IN [jsonrpc |-> "2.0",
      id |-> IdOrEmpty(request_id),
      result |->
        [id |-> task_id,
         contextId |-> context_id,
         status |-> [state |-> state, timestamp |-> n,
                     message |-> MessageEntry("agent", response_text, Uuid(n, 5 + u), task_id)],
         artifacts |-> artifacts,
         history |-> history,
         kind |-> "task"]]

---------------------------------------------------------------------------
(* src/app.py: handle_lingflow *)

\* what a handler hands back: jsonify(body) with an HTTP status, or an
\* exception that leaves the handler
Returned(code, body) == [kind |-> "returned", code |-> code, body |-> body]
Raised(exc) == [kind |-> "raised", exc |-> exc]

\* request.get_json(silent=True)
get_json_silent(body) == IF body = Malformed THEN JNull ELSE body

\* the parsed body without the `or {}`
json_without_default(body) == get_json_silent(body)

\* request.get_json(silent=True) or {}
json_or_empty(body) ==
  LET j == get_json_silent(body) IN IF Truthy(j) THEN j ELSE EmptyObj

\* a test that lets a request without a method through
UnknownMethodUnlessAbsent(method) == method # JStr(MessageSend) /\ method # EmptyStr

\* `method != 'message/send'`
UnknownMethod(method) == method # JStr(MessageSend)

\* the except clause of handle_lingflow, entered with exception exc
lingflow_except(data, exc, n) ==
  IF ~IsObj(data) THEN Raised("AttributeError")
  ELSE Returned(200, create_jsonrpc_response(Get(data, "id", EmptyStr),
                       ErrorTextPrefix \o <<exc>>, JNull, "failed", n))

\* handle_lingflow on a request body, as the n-th request
handle_lingflow(body, n) ==
  LET data == json_or_empty(body) IN
  IF ~IsObj(data)
  THEN [resp |-> lingflow_except(data, "AttributeError", n),
        message |-> JNull, branch |-> "none", calls |-> {}]
  ELSE
    LET request_id == Get(data, "id", EmptyStr)
        method == Get(data, "method", EmptyStr)
    IN
    IF ~Truthy(data)
    THEN [resp |-> Returned(200, create_jsonrpc_response(EmptyStr, EmptyRequestText, JNull, "failed", n)),
          message |-> JNull, branch |-> "none", calls |-> {}]
    ELSE IF UnknownMethod(method)
    THEN [resp |-> Returned(200, create_jsonrpc_response(request_id, UnknownMethodText, JNull, "failed", n)),
          message |-> JNull, branch |-> "none", calls |-> {}]
    ELSE
      LET user_message == extract_user_message(data)
          reply == process_user_message(user_message)
      IN [resp |-> Returned(200, create_jsonrpc_response(request_id, reply.text,
                                   JStr(user_message), DefaultState, n)),
          message |-> JStr(user_message),
          branch |-> reply.branch,
          calls |-> {"extract_user_message", "process_user_message"} \cup reply.calls]

---------------------------------------------------------------------------
(* src/app.py: handle_agent, the flat endpoint *)

ValidationText == <<"Please provide a 'message' in your JSON payload.">>
ApologyText == <<"Sorry, I encountered an error processing your request. Please try again.">>
AdvertisedActions == <<"Analyze Code", "Explain Concept">>

\* the envelope handle_agent returns when nothing is raised
\* a success response whose message numbers the requests served
AgentSuccessNumbered(response_msg, channel_id, user_id, n) ==
  Returned(200,
    [status |-> "success",
     data |-> [message |-> response_msg \o <<n>>, agent |-> AgentIdentity.name,
               actions |-> AdvertisedActions],
     meta |-> [channel_id |-> channel_id, user_id |-> user_id, timestamp |-> n]])

AgentSuccess(response_msg, channel_id, user_id, n) ==
  Returned(200,
    [status |-> "success",
     data |-> [message |-> response_msg, agent |-> AgentIdentity.name,
               actions |-> AdvertisedActions],
     meta |-> [channel_id |-> channel_id, user_id |-> user_id, timestamp |-> n]])

\* the except clause of handle_agent
AgentFailure(n) ==
  Returned(500,
    [status |-> "error",
     data |-> [message |-> ApologyText, agent |-> AgentIdentity.name, actions |-> <<>>],
     meta |-> [channel_id |-> JNull, user_id |-> JNull, timestamp |-> n]])

\* handle_agent on a request body, as the n-th request
handle_agent(body, n) ==
  LET data == json_or_empty(body) IN
  IF ~IsObj(data) \/ ~IsStr(Get(data, "message", EmptyStr))
  THEN [resp |-> AgentFailure(n), message |-> JNull, branch |-> "none", calls |-> {}]
  ELSE
    LET user_message == Strip(Get(data, "message", EmptyStr).v)
        channel_id == Get(data, "channel_id", JStr(<<"u","n","k","n","o","w","n">>))
        user_id == Get(data, "user_id", JStr(<<"u","n","k","n","o","w","n">>))
    IN
    IF user_message = <<>>
    THEN [resp |-> AgentSuccess(ValidationText, channel_id, user_id, n),
          message |-> JStr(user_message), branch |-> "none", calls |-> {}]
    ELSE
      LET reply == process_user_message(user_message) IN
      [resp |-> AgentSuccess(reply.text, channel_id, user_id, n),
       message |-> JStr(user_message), branch |-> reply.branch,
       calls |-> {"process_user_message"} \cup reply.calls]

---------------------------------------------------------------------------
(* src/telex_code_helper.py: CodeHelperAgent *)

NoAnalysis(summary) ==
  [analysis |-> summary, suggestions |-> <<>>, improvements |-> <<>>,
   potential_issues |-> <<>>]

LongCodeImprovement == "Consider breaking down long code into smaller functions"
NoFunctionsImprovement == "Consider organizing code into functions for better reusability"

\* findings that report eval before import-star
PythonFindingsEvalFirst(code) ==
  LET star == Contains(code, <<"i","m","p","o","r","t"," ","*">>)
      eval == Contains(code, <<"e","v","a","l","(">>)
      bare == Contains(code, <<"e","x","c","e","p","t",":">>) \/ Contains(code, <<"e","x","c","e","p","t"," ","E","x","c","e","p","t","i","o","n",":">>)
      lines == SplitOn("\n", code)
  IN [potential_issues |->
        (IF eval THEN <<"Use of eval() can be dangerous">> ELSE <<>>)
        \o (IF star THEN <<"Avoid using 'import *' as it pollutes the namespace">> ELSE <<>>)
        \o (IF bare THEN <<"Bare except clause may catch too many exceptions">> ELSE <<>>),
      suggestions |->
        (IF eval THEN <<"Consider safer alternatives like ast.literal_eval()">> ELSE <<>>)
        \o (IF star THEN <<"Import specific functions/classes instead">> ELSE <<>>)
        \o (IF bare THEN <<"Catch specific exceptions instead">> ELSE <<>>),
      improvements |->
        (IF Len(lines) > 50 THEN <<LongCodeImprovement>> ELSE <<>>)
        \o (IF (\A i \in 1..Len(lines) : ~Contains(lines[i], <<"d","e","f"," ">>)) /\ Len(lines) > 10
            THEN <<NoFunctionsImprovement>> ELSE <<>>)]

\* the lists of _analyze_python_code
PythonFindings(code) ==
  LET star == Contains(code, <<"i","m","p","o","r","t"," ","*">>)
      eval == Contains(code, <<"e","v","a","l","(">>)
      bare == Contains(code, <<"e","x","c","e","p","t",":">>) \/ Contains(code, <<"e","x","c","e","p","t"," ","E","x","c","e","p","t","i","o","n",":">>)
      lines == SplitOn("\n", code)
  IN [potential_issues |->
        (IF star THEN <<"Avoid using 'import *' as it pollutes the namespace">> ELSE <<>>)
        \o (IF eval THEN <<"Use of eval() can be dangerous">> ELSE <<>>)
        \o (IF bare THEN <<"Bare except clause may catch too many exceptions">> ELSE <<>>),
      suggestions |->
        (IF star THEN <<"Import specific functions/classes instead">> ELSE <<>>)
        \o (IF eval THEN <<"Consider safer alternatives like ast.literal_eval()">> ELSE <<>>)
        \o (IF bare THEN <<"Catch specific exceptions instead">> ELSE <<>>),
      improvements |->
        (IF Len(lines) > 50 THEN <<LongCodeImprovement>> ELSE <<>>)
        \o (IF (\A i \in 1..Len(lines) : ~Contains(lines[i], <<"d","e","f"," ">>)) /\ Len(lines) > 10
            THEN <<NoFunctionsImprovement>> ELSE <<>>)]

_analyze_python_code(code, question) ==
  [analysis |-> <<"Python code analysis completed.">>] @@ PythonFindings(code)

\* `"console.log" in code and "test" not in question.lower() if question else True`
ConsoleLogFlag(code, question) ==
  IF Truthy(question)
  THEN Contains(code, <<"c","o","n","s","o","l","e",".","l","o","g">>) /\ ~Contains(Lower(question.v), <<"t","e","s","t">>)
  ELSE TRUE

_analyze_js_code(code, question) ==
  [analysis |-> <<"JavaScript/TypeScript code analysis completed.">>,
   suggestions |->
     (IF Contains(code, <<"=","=">>) /\ ~Contains(code, <<"=","=","=">>)
      THEN <<"Consider using === instead of == for strict equality checks">> ELSE <<>>)
     \o (IF Contains(code, <<"v","a","r"," ">>)
         THEN <<"Prefer let/const over var for better scoping">> ELSE <<>>),
   improvements |-> <<>>,
   potential_issues |->
     IF ConsoleLogFlag(code, question)
     THEN <<"Remove console.log statements before production deployment">> ELSE <<>>]

_analyze_general_code(code, language, question) ==
  [analysis |-> Title(language) \o <<" ","c","o","d","e"," ","a","n","a","l","y","s","i","s"," ","c","o","m","p","l","e","t","e","d",".">>,
   suggestions |-> <<"Ensure proper error handling", "Add comments for complex logic",
                     "Follow language-specific best practices">>,
   improvements |-> <<"Consider adding unit tests",
                      "Review code for potential performance bottlenecks">>,
   potential_issues |-> <<>>]

\* CodeHelperAgent.analyze_code; language and question are Python values
analyze_code(code, language, question) ==
  IF Strip(code) = <<>> THEN NoAnalysis(<<"No code provided for analysis.">>)
  ELSE IF ~IsStr(language)
  THEN NoAnalysis(<<"E","r","r","o","r"," ","a","n","a","l","y","z","i","n","g"," ","c","o","d","e",":"," ">> \o <<"AttributeError">>)
  ELSE IF Lower(language.v) = <<"p","y","t","h","o","n">> THEN _analyze_python_code(code, question)
  ELSE IF Lower(language.v) \in {<<"j","a","v","a","s","c","r","i","p","t">>, <<"t","y","p","e","s","c","r","i","p","t">>}
  THEN _analyze_js_code(code, question)
  ELSE _analyze_general_code(code, language.v, question)

HelperConceptKeys == <<<<"o","o","p">>, <<"a","p","i">>, <<"r","e","s","t">>, <<"m","v","c">>, <<"d","o","c","k","e","r">>, <<"g","i","t">>>>

HelperConceptTexts ==
  <<"Object-Oriented Programming (OOP) organizes software design around objects and classes rather than functions and logic.",
    "API (Application Programming Interface) defines interactions between multiple software applications.",
    "REST (Representational State Transfer) is an architectural style for designing networked applications.",
    "MVC (Model-View-Controller) separates an application into three interconnected components.",
    "Docker is a platform for developing, shipping, and running applications in containers.",
    "Git is a distributed version control system for tracking changes in source code.">>

\* CodeHelperAgent._get_concept_examples, for a key of the explanations
_get_concept_examples(concept, language) ==
  IF concept = <<"o","o","p">>
  THEN IF Truthy(language) /\ language = JStr(<<"j","a","v","a","s","c","r","i","p","t">>)
       THEN <<"class Dog { constructor(name) { this.name = name; } bark() { return 'Woof!'; } }">>
       ELSE <<"class Dog: def __init__(self, name): self.name = name; def bark(self): return 'Woof!'">>
  ELSE IF concept = <<"a","p","i">> THEN <<"REST APIs use HTTP methods: GET /users - retrieve users, POST /users - create user, PUT /users/1 - update user, DELETE /users/1 - delete user">>
  ELSE <<"Examples available in language-specific documentation.">>

\* CodeHelperAgent.explain_concept of telex_code_helper.py
helper_explain_concept(concept, language) ==
  LET concept_lower == Lower(concept)
      hits == {i \in 1..Len(HelperConceptKeys) : Contains(concept_lower, HelperConceptKeys[i])}
  IN IF hits # {}
     THEN LET key == HelperConceptKeys[CHOOSE i \in hits : \A j \in hits : i <= j] IN
          [concept |-> concept,
           explanation |-> <<HelperConceptTexts[IndexIn(HelperConceptKeys, key)]>>,
           examples |-> _get_concept_examples(key, language)]
     ELSE [concept |-> concept,
           explanation |-> <<"I","'","l","l"," ","e","x","p","l","a","i","n"," ">> \o concept
                           \o <<"."," ","T","h","i","s"," ","i","s"," ","a"," ","p","r","o","g","r","a","m","m","i","n","g","/","d","e","v","e","l","o","p","m","e","n","t"," ","c","o","n","c","e","p","t"," ","t","h","a","t"," ","i","n","v","o","l","v","e","s",".",".",".">>,
           examples |-> <<"Check official documentation for specific examples and implementations.">>]

---------------------------------------------------------------------------
(* src/telex_code_helper.py: process_user_message and what it calls *)

CodeIndicators ==
  <<<<"d","e","f"," ">>, <<"c","l","a","s","s"," ">>, <<"f","u","n","c","t","i","o","n"," ">>, <<"i","m","p","o","r","t"," ">>, <<"v","a","r"," ">>, <<"l","e","t"," ">>,
    <<"c","o","n","s","t"," ">>, <<"p","u","b","l","i","c"," ">>, <<"p","r","i","v","a","t","e"," ">>>>

extract_code_from_message(message) ==
  IF AnyIn(CodeIndicators, message) THEN message
  ELSE IF Contains(message, <<"\n">>) /\ Len(message) > 20 THEN message
  ELSE <<>>

PasteCodeText == <<"Please provide the code you'd like me to analyze. You can paste it directly in your message.">>

\* the lines "heading, then one bullet per item" of a section
RECURSIVE Bullets(_)
Bullets(items) ==
  IF items = <<>> THEN <<>> ELSE <<"* ", Head(items), "\n">> \o Bullets(Tail(items))

\* a section that keeps its heading when it has no items
SectionWithHeading(heading, items, tail) ==
  <<heading, "\n">> \o Bullets(items) \o tail

Section(heading, items, tail) ==
  IF items = <<>> THEN <<>> ELSE <<heading, "\n">> \o Bullets(items) \o tail

\* a reply, or the exception that leaves the function
Reply(text, taken, used) == [fault |-> FALSE, text |-> text, branch |-> taken, calls |-> used]
Throws(taken, used) == [fault |-> TRUE, text |-> <<>>, branch |-> taken, calls |-> used]

handle_code_analysis(message, context) ==
  IF ~IsObj(context) THEN Throws("Analyze", {"keywords"})
  ELSE
    LET language == Get(context, "language", JStr(<<"p","y","t","h","o","n">>))
        code == extract_code_from_message(message)
    IN
    IF code = <<>>
    THEN Reply(PasteCodeText, "Analyze", {"keywords", "extract_code_from_message"})
    ELSE IF ~IsStr(language)
    THEN Throws("Analyze", {"keywords", "extract_code_from_message", "analyze_code"})
    ELSE
      LET analysis == analyze_code(code, language, JStr(message)) IN
      Reply(<<"**Code Analysis for ">> \o Title(language.v) \o <<"*","*","\n","\n">>
              \o <<"**Analysis:** ">> \o analysis.analysis \o <<"\n","\n">>
              \o Section("**Potential Issues:**", analysis.potential_issues, <<"\n">>)
              \o Section("**Suggestions:**", analysis.suggestions, <<"\n">>)
              \o Section("**Improvements:**", analysis.improvements, <<>>),
            "Analyze", {"keywords", "extract_code_from_message", "analyze_code"})

ScanConcepts ==
  <<<<"o","o","p">>, <<"a","p","i">>, <<"r","e","s","t">>, <<"m","v","c">>, <<"d","o","c","k","e","r">>, <<"g","i","t">>, <<"p","r","o","g","r","a","m","m","i","n","g">>, <<"c","o","d","e">>>>

CommonWords ==
  {<<"w","h","a","t">>, <<"i","s">>, <<"e","x","p","l","a","i","n">>, <<"h","o","w">>, <<"d","o","e","s">>, <<"w","o","r","k">>, <<"t","h","e">>, <<"a">>, <<"a","n">>}

PlaceholderConcept == <<"p","r","o","g","r","a","m","m","i","n","g"," ","c","o","n","c","e","p","t">>

\* the concept token handle_concept_explanation settles on
FoundConcept(message) ==
  LET lower == Lower(message)
      hits == {i \in 1..Len(ScanConcepts) : Contains(lower, ScanConcepts[i])}
      words == Words(lower)
      picks == {i \in 1..Len(words) : words[i] \notin CommonWords /\ Len(words[i]) > 2}
  IN IF hits # {} THEN ScanConcepts[CHOOSE i \in hits : \A j \in hits : i <= j]
     ELSE IF picks # {} THEN words[CHOOSE i \in picks : \A j \in picks : i <= j]
     ELSE PlaceholderConcept

handle_concept_explanation(message, context) ==
  IF ~IsObj(context) THEN Throws("Explain", {"keywords"})
  ELSE
    LET language == Get(context, "language", JNull)
        explanation == helper_explain_concept(FoundConcept(message), language)
    IN Reply(<<"**Explanation: ">> \o Title(explanation.concept) \o <<"*","*","\n","\n">>
               \o explanation.explanation \o <<"\n","\n">>
               \o <<"**Examples:**", "\n">> \o explanation.examples \o <<"\n","\n">>
               \o <<"Need more details? Feel free to ask!">>,
             "Explain", {"keywords", "explain_concept"})

handle_general_assistance(message, context) ==
  <<"**Code Helper Agent** I received your message: \"">> \o message
    \o <<"\" I can help you with: ... Try asking me to analyze some code or explain a programming concept!">>

get_help_message == <<"**Code Helper Agent - Help** I can assist you with: **Code Analysis** ... **Concept Explanations** ... **General Assistance** ... Just paste your code or ask your question!">>

HelperAnalyzeKeywords == <<<<"a","n","a","l","y","z","e">>, <<"r","e","v","i","e","w">>, <<"c","h","e","c","k"," ","c","o","d","e">>, <<"w","h","a","t","'","s"," ","w","r","o","n","g">>>>
HelperExplainKeywords == <<<<"e","x","p","l","a","i","n">>, <<"w","h","a","t"," ","i","s">>, <<"h","o","w"," ","d","o","e","s">>>>
HelperHelpKeywords == <<<<"h","e","l","p">>, <<"s","u","p","p","o","r","t">>, <<"a","s","s","i","s","t">>>>

\* process_user_message of telex_code_helper.py
helper_process_user_message(message, context) ==
  LET message_lower == Lower(message) IN
  IF AnyIn(HelperAnalyzeKeywords, message_lower) THEN handle_code_analysis(message, context)
  ELSE IF AnyIn(HelperExplainKeywords, message_lower)
  THEN handle_concept_explanation(message, context)
  ELSE IF AnyIn(HelperHelpKeywords, message_lower)
  THEN Reply(get_help_message, "Help", {"keywords"})
  ELSE Reply(handle_general_assistance(message, context), "General", {"keywords"})

---------------------------------------------------------------------------
(* src/telex_code_helper.py: handle_code_help *)

NoJsonText == <<"Invalid request: No JSON data provided">>
NoMessageText == <<"Please provide a message or code to analyze">>

HelperError(code, text) == Returned(code, [response |-> text, error |-> TRUE])

\* the except clause of handle_code_help
HelperFailure(exc) ==
  HelperError(500, <<"E","r","r","o","r"," ","p","r","o","c","e","s","s","i","n","g"," ","y","o","u","r"," ","r","e","q","u","e","s","t",":"," ">> \o <<exc>>)

\* handle_code_help on a request body, as the n-th request
handle_code_help(body, n) ==
  IF body = Malformed
  THEN [resp |-> HelperFailure("BadRequest"), message |-> JNull, branch |-> "none", calls |-> {}]
  ELSE
    LET data == body IN
    IF ~Truthy(data)
    THEN [resp |-> HelperError(400, NoJsonText), message |-> JNull, branch |-> "none", calls |-> {}]
    ELSE IF ~IsObj(data) \/ ~IsStr(Get(data, "message", EmptyStr))
    THEN [resp |-> HelperFailure("AttributeError"), message |-> JNull, branch |-> "none", calls |-> {}]
    ELSE
      LET user_message == Strip(Get(data, "message", EmptyStr).v)
          context == Get(data, "context", EmptyObj)
      IN
      IF user_message = <<>>
      THEN [resp |-> HelperError(400, NoMessageText), message |-> JStr(user_message),
            branch |-> "none", calls |-> {}]
      ELSE
        LET reply == helper_process_user_message(user_message, context) IN
        IF reply.fault
        THEN [resp |-> HelperFailure("AttributeError"), message |-> JStr(user_message),
              branch |-> reply.branch, calls |-> {"process_user_message"} \cup reply.calls]
        ELSE [resp |-> Returned(200,
                         [response |-> reply.text,
                          channel_id |-> Get(data, "channel_id", JNull),
                          user_id |-> Get(data, "user_id", JNull),
                          agent |-> AgentIdentity.name,
                          timestamp |-> n]),
              message |-> JStr(user_message), branch |-> reply.branch,
              calls |-> {"process_user_message"} \cup reply.calls]

---------------------------------------------------------------------------
(* The requests the endpoints are given *)

\* a field that is absent, or has one of the values
Field(key, values) == {<<>>} \cup {key :> x : x \in values}

RECURSIVE SeqsUpTo(_, _)
SeqsUpTo(S, n) ==
  IF n = 0 THEN {<<>>}
  ELSE LET shorter == SeqsUpTo(S, n - 1) IN
       shorter \cup {Append(s, x) : s \in {t \in shorter : Len(t) = n - 1}, x \in S}

TextPartOf(text) == JObj("kind" :> KindText @@ "text" :> text)
DataPartOf(items) == JObj("kind" :> KindData @@ "data" :> items)

PartPool ==
  { TextPartOf(JStr(<<"a","n","a","l","y","z","e"," ">>)),
    TextPartOf(JStr(<<"t","h","i","s">>)),
    TextPartOf(JStr(<<" ">>)),
    TextPartOf(EmptyStr),
    TextPartOf(JNum(5)),
    JObj("kind" :> KindText),
    DataPartOf(JArr(<<TextPartOf(JStr(<<"t","h","i","s">>))>>)),
    DataPartOf(JArr(<<TextPartOf(JStr(<<"H","e","l","p">>)), JObj("kind" :> JStr(<<"f","i","l","e">>))>>)),
    DataPartOf(JArr(<<JNum(1)>>)),
    DataPartOf(JNull),
    JObj("kind" :> JStr(<<"f","i","l","e">>)),
    JStr(<<"x">>) }

PartsPool ==
  {JArr(p) : p \in SeqsUpTo(PartPool, MaxParts)}
    \cup {JNull, JStr(<<"a","b">>), JNum(3), EmptyObj, JObj("k" :> JNum(1))}

MessagePool ==
  {JObj(p) : p \in Field("parts", PartsPool)} \cup {JNull, JStr(<<"h","i">>)}

ParamsPool ==
  {JObj(m) : m \in Field("message", MessagePool)} \cup {JNull, JArr(<<JNum(1)>>)}

IdPool == {JStr(<<"r","1">>), EmptyStr, JNum(0), JNull}

MethodPool == {JStr(MessageSend), JStr(<<"p","i","n","g">>)}

RpcObjects ==
  { JObj("jsonrpc" :> JStr(<<"2",".","0">>) @@ i @@ m @@ p) :
      i \in Field("id", IdPool), m \in Field("method", MethodPool),
      p \in Field("params", ParamsPool) }

\* bodies that get_json(silent=True) turns into a falsy value, and truthy
\* values that are no JSON object
FalsyBodies == {Malformed, JNull, JBool(FALSE), JNum(0), EmptyStr, EmptyArr, EmptyObj}
NonObjectBodies == {JBool(TRUE), JNum(1), JStr(<<"x">>), JArr(<<JNum(1)>>)}

LingflowBodies == RpcObjects \cup FalsyBodies \cup NonObjectBodies

\* the phrases a flat request's message is made of
PhrasePool ==
  { <<"a","n","a","l","y","z","e">>, <<"R","E","V","I","E","W">>, <<"c","h","e","c","k"," ","c","o","d","e">>, <<"w","h","a","t","'","s"," ","w","r","o","n","g">>,
    <<"E","x","p","l","a","i","n">>, <<"W","h","a","t"," ","i","s">>, <<"t","e","l","l"," ","m","e"," ","a","b","o","u","t">>, <<"h","o","w"," ","d","o","e","s">>,
    <<"h","e","l","p">>, <<"s","u","p","p","o","r","t">>, <<"a","s","s","i","s","t">>, <<"o","o","p">>, <<" ">> }

MessageTexts == {Join(<<" ">>, p) : p \in SeqsUpTo(PhrasePool, MaxFrags)}

ContextPool == {EmptyObj, JObj("language" :> JStr(<<"j","a","v","a","s","c","r","i","p","t">>)), JObj("language" :> JStr(<<"g","o">>))}

Sender == "channel_id" :> JStr(<<"c","1">>) @@ "user_id" :> JStr(<<"u","1">>)

\* a code body of k lines: the line given, then lines of an assignment
CodeOfLines(k, first) == Join(<<"\n">>, [i \in 1..k |-> IF i = 1 THEN first ELSE <<"x"," ","="," ","1">>])

\* messages that ask for an analysis, with code, without, and with too little
CodeMessages ==
  { <<"a","n","a","l","y","z","e"," ","d","e","f"," ","f","(",")",":"," ","e","v","a","l","(","x",")">>,
    <<"c","h","e","c","k"," ","c","o","d","e","\n","x"," ","="," ","e","v","a","l","(","y",")","\n","z"," ","="," ","2">>,
    <<"a","n","a","l","y","z","e","\n","x">>,
    <<"r","e","v","i","e","w"," ","e","v","a","l","(","x",")"," ","h","e","r","e"," ","a","n","d"," ","t","h","e","r","e">>,
    CodeOfLines(11, <<"r","e","v","i","e","w"," ","e","v","a","l","(","x",")">>),
    <<"a","n","a","l","y","z","e"," ","v","a","r"," ","y",";"," ","c","o","n","s","o","l","e",".","l","o","g","(","y",")">>,
    <<"a","n","a","l","y","z","e"," ","t","e","s","t"," ","v","a","r"," ","y",";"," ","c","o","n","s","o","l","e",".","l","o","g","(","y",")">> }

\* messages that ask about a concept
ConceptMessages ==
  { <<"e","x","p","l","a","i","n"," ","r","e","c","u","r","s","i","o","n"," ","i","n"," ","c","o","d","e">>, <<"w","h","a","t"," ","i","s"," ","p","r","o","g","r","a","m","m","i","n","g">>,
    <<"E","x","p","l","a","i","n"," ","R","E","S","T"," ","a","p","i">>, <<"e","x","p","l","a","i","n"," ","t","h","e"," ","r","e","c","u","r","s","i","o","n">> }

FlatObjects ==
  { JObj("message" :> JStr(m) @@ c @@ Sender) :
      m \in MessageTexts \cup CodeMessages \cup ConceptMessages,
      c \in Field("context", ContextPool) }
  \cup { JObj("message" :> JStr(<<"e","x","p","l","a","i","n"," ","o","o","p">>)),
         JObj("message" :> JStr(<<"r","e","v","i","e","w"," ","t","h","i","s">>) @@ "context" :> JStr(<<"x">>)),
         JObj("message" :> JStr(<<"r","e","v","i","e","w"," ","d","e","f"," ","f">>) @@ "context" :> JObj("language" :> JNum(3))),
         JObj("message" :> JNull @@ Sender),
         JObj("message" :> JNum(5) @@ Sender),
         JObj(Sender) }

FlatBodies == FlatObjects \cup FalsyBodies \cup NonObjectBodies

\* the arguments of a direct call of create_jsonrpc_response
BuilderIds == {JStr(<<"r","1">>), JNum(0), JNull}
BuilderTexts == {GuidanceText, UnknownMethodText, WelcomeText, <<>>}
BuilderMessages == {JNull, EmptyStr, JStr(<<"h","i">>), JStr(<<"h","e","l","p"," ","m","e">>)}
BuilderStates == {"completed", "failed", "working"}

\* the arguments of a direct call of an analyzer
Snippets ==
  { <<"f","r","o","m"," ","m"," ","i","m","p","o","r","t"," ","*">>, <<"e","v","a","l","(","x",")">>, <<"e","x","c","e","p","t",":">>, <<"e","x","c","e","p","t"," ","E","x","c","e","p","t","i","o","n",":">>,
    <<"d","e","f"," ","f","(",")",":">>, <<"c","o","n","s","o","l","e",".","l","o","g","(","x",")">>, <<"a"," ","=","="," ","b">>, <<"v","a","r"," ","y">> }

LineCounts == {10, 11, 50, 51}

LongCodes == {CodeOfLines(k, first) : k \in LineCounts, first \in {<<"x"," ","="," ","1">>, <<"d","e","f"," ","f","(",")",":">>, <<"e","v","a","l","(","x",")">>}}

CodePool ==
  {Join(<<"\n">>, p) : p \in SeqsUpTo(Snippets, MaxSnippets)} \cup LongCodes \cup {<<" ","\n">>}

LanguagePool == {JStr(<<"P","y","t","h","o","n">>), JStr(<<"j","a","v","a","s","c","r","i","p","t">>), JStr(<<"T","y","p","e","S","c","r","i","p","t">>), JStr(<<"g","o">>), JNull}

QuestionPool == {JNull, EmptyStr, JStr(<<"c","h","e","c","k"," ","t","h","i","s">>), JStr(<<"a"," ","T","e","s","t"," ","r","u","n">>)}

AppLanguagePool == {JStr(<<"P","y","t","h","o","n">>), JStr(<<"g","o">>), JNull}

---------------------------------------------------------------------------
(* The state machine *)

NoRequest == [endpoint |-> "none"]
NoResponse == [kind |-> "none"]

Init ==
  /\ pc = "idle"
  /\ served = 0
  /\ req = NoRequest
  /\ resp = NoResponse
  /\ calls = {}
  /\ branch = "none"
  /\ agent = AgentIdentity

\* POST /a2a/lingflow
HandleLingflow ==
  /\ pc = "idle"
  /\ served < MaxRequests
  /\ \E body \in LingflowBodies :
       LET out == handle_lingflow(body, served + 1) IN
       /\ req' = [endpoint |-> "/a2a/lingflow", body |-> body, message |-> out.message]
       /\ resp' = out.resp
       /\ calls' = out.calls
       /\ branch' = out.branch
  /\ served' = served + 1
  /\ pc' = "responded"
  /\ UNCHANGED agent

\* POST /a2a/agent/codeHelper of app.py
HandleAgent ==
  /\ pc = "idle"
  /\ served < MaxRequests
  /\ \E body \in FlatBodies :
       LET out == handle_agent(body, served + 1) IN
       /\ req' = [endpoint |-> "app:/a2a/agent/codeHelper", body |-> body, message |-> out.message]
       /\ resp' = out.resp
       /\ calls' = out.calls
       /\ branch' = out.branch
  /\ served' = served + 1
  /\ pc' = "responded"
  /\ UNCHANGED agent

\* POST /a2a/agent/codeHelper of telex_code_helper.py
HandleCodeHelp ==
  /\ pc = "idle"
  /\ served < MaxRequests
  /\ \E body \in FlatBodies :
       LET out == handle_code_help(body, served + 1) IN
       /\ req' = [endpoint |-> "helper:/a2a/agent/codeHelper", body |-> body, message |-> out.message]
       /\ resp' = out.resp
       /\ calls' = out.calls
       /\ branch' = out.branch
  /\ served' = served + 1
  /\ pc' = "responded"
  /\ UNCHANGED agent

\* create_jsonrpc_response called on its own
CallCreateJsonrpcResponse ==
  /\ pc = "idle"
  /\ served < MaxRequests
  /\ \E request_id \in BuilderIds, response_text \in BuilderTexts,
        user_message \in BuilderMessages, state \in BuilderStates :
       /\ req' = [endpoint |-> "create_jsonrpc_response", request_id |-> request_id,
                  response_text |-> response_text, user_message |-> user_message,
                  state |-> state]
       /\ resp' = Returned(0, create_jsonrpc_response(request_id, response_text,
                                 user_message, state, served + 1))
  /\ calls' = {}
  /\ branch' = "none"
  /\ served' = served + 1
  /\ pc' = "responded"
  /\ UNCHANGED agent

\* CodeHelperAgent.analyze_code of telex_code_helper.py called on its own
CallAnalyzeCode ==
  /\ pc = "idle"
  /\ served < MaxRequests
  /\ \E code \in CodePool, language \in LanguagePool, question \in QuestionPool :
       /\ req' = [endpoint |-> "helper:analyze_code", code |-> code,
                  language |-> language, question |-> question]
       /\ resp' = Returned(0, analyze_code(code, language, question))
  /\ calls' = {}
  /\ branch' = "none"
  /\ served' = served + 1
  /\ pc' = "responded"
  /\ UNCHANGED agent

\* CodeHelperAgent.analyze_code of app.py called on its own
CallAppAnalyzeCode ==
  /\ pc = "idle"
  /\ served < MaxRequests
  /\ \E code \in CodePool, language \in AppLanguagePool :
       /\ req' = [endpoint |-> "app:analyze_code", code |-> code, language |-> language]
       /\ resp' = LET out == app_analyze_code(code, language) IN
                  IF out.fault THEN Raised("AttributeError") ELSE Returned(0, out.dict)
  /\ calls' = {}
  /\ branch' = "none"
  /\ served' = served + 1
  /\ pc' = "responded"
  /\ UNCHANGED agent

\* the response leaves the process; nothing of the request is kept
Deliver ==
  /\ pc = "responded"
  /\ pc' = "idle"
  /\ req' = NoRequest
  /\ resp' = NoResponse
  /\ calls' = {}
  /\ branch' = "none"
  /\ UNCHANGED <<served, agent>>

Next ==
  \/ HandleLingflow \/ HandleAgent \/ HandleCodeHelp
  \/ CallCreateJsonrpcResponse \/ CallAnalyzeCode \/ CallAppAnalyzeCode
  \/ Deliver

Spec == Init /\ [][Next]_vars

---------------------------------------------------------------------------
(* Properties of the JSON-RPC endpoint and of the Task it returns *)

Responded == pc = "responded"
IsLingflow == req.endpoint = "/a2a/lingflow"
IsBuilderCall == req.endpoint = "create_jsonrpc_response"
IsAppFlat == req.endpoint = "app:/a2a/agent/codeHelper"
IsHelperFlat == req.endpoint = "helper:/a2a/agent/codeHelper"
ReturnedTask == resp.kind = "returned" /\ (IsLingflow \/ IsBuilderCall)

EntryText(entry) == entry.parts[1].text

\* the shape every Task envelope has
WellFormedEnvelope(e) ==
  /\ e.jsonrpc = "2.0"
  /\ e.result.kind = "task"
  /\ e.result.status.state \in {"completed", "failed"}
  /\ e.result.status.message.role = "agent"
  /\ Len(e.result.artifacts) = 1
  /\ Len(e.result.history) \in {1, 2}

\* C1: every Task the JSON-RPC endpoint returns is in state completed or
\* failed; no return path yields a Task in state submitted or any other state.
C1_TerminalState ==
  (Responded /\ IsLingflow /\ resp.kind = "returned")
    => resp.body.result.status.state \in {"completed", "failed"}

\* a message/send request was answered with a completed Task
C1_Witness ==
  /\ Responded /\ IsLingflow /\ resp.kind = "returned"
  /\ IsObj(req.body) /\ Get(req.body, "method", JNull) = JStr(MessageSend)
  /\ resp.body.result.status.state = "completed"

\* the original message and the reply a Task was built from
OriginalMessage == IF IsBuilderCall THEN req.user_message ELSE req.message
ReplyText ==
  IF IsBuilderCall THEN req.response_text ELSE EntryText(resp.body.result.status.message)

\* C2: a completed Task built with a non-empty original message has the
\* history [User entry with the original message, Agent entry with the reply];
\* a failed Task has a history of exactly one Agent entry, whatever
\* user_message was passed.
C2_History ==
  (Responded /\ ReturnedTask) =>
    LET task == resp.body.result
        h == task.history
    IN /\ (task.status.state = "completed" /\ Truthy(OriginalMessage)) =>
            /\ Len(h) = 2
            /\ h[1].role = "user" /\ EntryText(h[1]) = OriginalMessage.v
            /\ h[2].role = "agent" /\ EntryText(h[2]) = ReplyText
       /\ task.status.state = "failed" =>
            /\ Len(h) = 1
            /\ h[1].role = "agent" /\ EntryText(h[1]) = ReplyText

\* a failed Task was built although a non-empty user_message was passed
C2_Witness ==
  /\ Responded /\ IsBuilderCall
  /\ req.state = "failed" /\ Truthy(req.user_message)
  /\ Len(resp.body.result.history) = 1

\* C3: for every JSON body, handle_lingflow returns a well-formed Task
\* envelope; no exception leaves the handler.
C3_NoEscape ==
  (Responded /\ IsLingflow) =>
    (resp.kind = "returned" /\ WellFormedEnvelope(resp.body))

\* the request with one field left out
Without(obj, key) == JObj([k \in DOMAIN obj.v \ {key} |-> obj.v[k]])

NonEmptyObjectBody == req.body # Malformed /\ IsObj(req.body) /\ Truthy(req.body)

\* C4: a non-empty request object whose method is not "message/send" (or is
\* absent) gets a failed Task whose reply contains "Unknown method"; nothing
\* is extracted or classified, and the response is the one the same request
\* gets without its params.
C4_UnknownMethod ==
  (Responded /\ IsLingflow /\ NonEmptyObjectBody
     /\ Get(req.body, "method", JNull) # JStr(<<"m","e","s","s","a","g","e","/","s","e","n","d">>)) =>
    /\ resp.kind = "returned"
    /\ resp.body.result.status.state = "failed"
    /\ Contains(EntryText(resp.body.result.status.message), <<"U","n","k","n","o","w","n"," ","m","e","t","h","o","d">>)
    /\ calls = {}
    /\ resp = handle_lingflow(Without(req.body, "params"), served).resp

\* a request without a method, carrying a message, was answered
C4_Witness ==
  /\ Responded /\ IsLingflow /\ NonEmptyObjectBody
  /\ "method" \notin DOMAIN req.body.v
  /\ "params" \in DOMAIN req.body.v
  /\ IsObj(req.body.v["params"])
  /\ resp.kind = "returned"

\* C5: an unparseable body gets a failed Task with envelope id "" and a
\* history of exactly one Agent entry; nothing is raised.
C5_MalformedBody ==
  (Responded /\ IsLingflow /\ req.body = Malformed) =>
    /\ resp.kind = "returned"
    /\ WellFormedEnvelope(resp.body)
    /\ resp.body.result.status.state = "failed"
    /\ resp.body.id = EmptyStr
    /\ Len(resp.body.result.history) = 1
    /\ resp.body.result.history[1].role = "agent"

\* an unparseable body was answered
C5_Witness ==
  Responded /\ IsLingflow /\ req.body = Malformed /\ resp.kind = "returned"

\* the id the caller supplied, "" when it supplied none
SuppliedId ==
  IF req.body # Malformed /\ IsObj(req.body) /\ "id" \in DOMAIN req.body.v
  THEN req.body.v["id"] ELSE EmptyStr

\* C6: the envelope has jsonrpc "2.0" and the id the caller supplied, ""
\* only when it supplied none; also for the id 0 and other falsy ids.
C6_IdEcho ==
  (Responded /\ IsLingflow /\ resp.kind = "returned") =>
    (resp.body.jsonrpc = "2.0" /\ resp.body.id = SuppliedId)

\* the text fragments of a parts array, in order: the text of each text part
\* and of each text item of a data part
RECURSIVE FragmentsOf(_)
FragmentsOf(parts) ==
  IF parts = <<>> THEN <<>>
  ELSE LET p == Head(parts) IN
       (IF Get(p, "kind", JNull) = JStr(<<"t","e","x","t">>) THEN <<Get(p, "text", EmptyStr).v>>
        ELSE IF Get(p, "kind", JNull) = JStr(<<"d","a","t","a">>) THEN FragmentsOf(Get(p, "data", EmptyArr).v)
        ELSE <<>>)
       \o FragmentsOf(Tail(parts))

\* a part (or data item) as the JSON-RPC call documents it
RECURSIVE Documented(_)
Documented(parts) ==
  \A i \in 1..Len(parts) :
    /\ IsObj(parts[i])
    /\ \/ /\ Get(parts[i], "kind", JNull) = JStr(<<"t","e","x","t">>)
          /\ IsStr(Get(parts[i], "text", JNull))
       \/ /\ Get(parts[i], "kind", JNull) = JStr(<<"d","a","t","a">>)
          /\ Get(parts[i], "data", JNull).t = "arr"
          /\ Documented(Get(parts[i], "data", JNull).v)

\* the parts array of a documented message/send request
HasDocumentedParts ==
  /\ NonEmptyObjectBody
  /\ Get(req.body, "method", JNull) = JStr(<<"m","e","s","s","a","g","e","/","s","e","n","d">>)
  /\ IsObj(Get(req.body, "params", JNull))
  /\ IsObj(Get(req.body.v["params"], "message", JNull))
  /\ Get(req.body.v["params"].v["message"], "parts", JNull).t = "arr"
  /\ Documented(req.body.v["params"].v["message"].v["parts"].v)

RequestParts == req.body.v["params"].v["message"].v["parts"].v

\* the fragments joined by exactly one space, a fragment's own leading and
\* trailing whitespace and the empty fragments left out
SingleSpaced(fragments) ==
  LET trimmed == [i \in 1..Len(fragments) |-> Strip(fragments[i])]
  IN Join(<<" ">>, SelectSeq(trimmed, LAMBDA f : f # <<>>))

\* C7: extract_user_message returns the text fragments in order, the empty
\* ones skipped, joined by exactly one space: [text "analyze ", data [text
\* "this"]] gives "analyze this", never a double space.
C7_SingleSpaceJoin ==
  (Responded /\ IsLingflow /\ HasDocumentedParts) =>
    req.message = JStr(SingleSpaced(FragmentsOf(RequestParts)))

---------------------------------------------------------------------------
(* Properties of the classification and of the flat endpoints *)

\* the keyword sets the specification gives, in their precedence
ClaimedTable ==
  <<[intent |-> "Analyze", keywords |-> {<<"a","n","a","l","y","z","e">>, <<"r","e","v","i","e","w">>, <<"c","h","e","c","k"," ","c","o","d","e">>}],
    [intent |-> "Explain", keywords |-> {<<"e","x","p","l","a","i","n">>, <<"w","h","a","t"," ","i","s">>, <<"t","e","l","l"," ","m","e"," ","a","b","o","u","t">>}],
    [intent |-> "Help", keywords |-> {<<"h","e","l","p">>}]>>

\* the keyword sets of telex_code_helper.py, in their precedence
HelperTable ==
  <<[intent |-> "Analyze", keywords |-> {<<"a","n","a","l","y","z","e">>, <<"r","e","v","i","e","w">>, <<"c","h","e","c","k"," ","c","o","d","e">>, <<"w","h","a","t","'","s"," ","w","r","o","n","g">>}],
    [intent |-> "Explain", keywords |-> {<<"e","x","p","l","a","i","n">>, <<"w","h","a","t"," ","i","s">>, <<"h","o","w"," ","d","o","e","s">>}],
    [intent |-> "Help", keywords |-> {<<"h","e","l","p">>, <<"s","u","p","p","o","r","t">>, <<"a","s","s","i","s","t">>}]>>

\* first match wins: the intent of the first row a keyword of which occurs
\* in the case-folded text, General when no row has one
FirstMatch(table, text) ==
  LET rows == {i \in 1..Len(table) :
                 \E k \in table[i].keywords : Contains(Lower(text), k)}
  IN IF rows = {} THEN "General"
     ELSE table[CHOOSE i \in rows : \A j \in rows : i <= j].intent

\* a message went through the keyword matching
Classified == Responded /\ "keywords" \in calls

\* C8 as stated: in every variant the intent is the first match against the
\* sets {analyze, review, check code}, {explain, what is, tell me about},
\* {help}, and no other keyword changes it.
C8_ClaimedKeywords ==
  Classified => branch = FirstMatch(ClaimedTable, req.message.v)

\* C8: classification is total, case-insensitive and first-match-wins with
\* precedence Analyze > Explain > Help > General; app.py matches exactly the
\* sets {analyze, review, check code}, {explain, what is, tell me about},
\* {help}, and telex_code_helper.py the sets {analyze, review, check code,
\* what's wrong}, {explain, what is, how does}, {help, support, assist}.
C8_Classification ==
  Classified =>
    /\ branch \in {"Analyze", "Explain", "Help", "General"}
    /\ (IsLingflow \/ IsAppFlat) => branch = FirstMatch(ClaimedTable, req.message.v)
    /\ IsHelperFlat => branch = FirstMatch(HelperTable, req.message.v)

\* app.py classified a message that has keywords of Explain and of Help, one
\* of them in upper case
C8_Witness ==
  /\ Classified /\ IsAppFlat
  /\ Contains(req.message.v, <<"E","x","p","l","a","i","n">>)
  /\ Contains(req.message.v, <<"h","e","l","p">>)
  /\ branch = "Explain"

\* a flat request whose message is missing, empty or only whitespace
EmptyMessageRequest ==
  /\ (IsAppFlat \/ IsHelperFlat)
  /\ req.body # Malformed /\ IsObj(req.body)
  /\ \/ "message" \notin DOMAIN req.body.v
     \/ /\ IsStr(req.body.v["message"])
        /\ Strip(req.body.v["message"].v) = <<>>

\* a response marked as an error: error=true, or status="error"
ErrorMarked ==
  \/ "error" \in DOMAIN resp.body /\ resp.body.error = TRUE
  \/ "status" \in DOMAIN resp.body /\ resp.body.status = "error"

\* C9: on the flat call an empty, whitespace-only or missing message gives
\* an error outcome, marked as an error with a 400-style status; success is
\* returned only when the message is non-empty and the pipeline ran.
C9_EmptyIsError ==
  /\ (Responded /\ EmptyMessageRequest) =>
       (resp.kind = "returned" /\ resp.code = 400 /\ ErrorMarked)
  /\ (Responded /\ (IsAppFlat \/ IsHelperFlat) /\ resp.kind = "returned" /\ resp.code = 200) =>
       (~ErrorMarked /\ "process_user_message" \in calls /\ Truthy(req.message))

\* C10: for an empty message (a message/send whose parts yield no text) the
\* reply is the guidance reply asking for a message, no intent keyword is
\* evaluated, neither the analyzer nor the concept lookup is used, and the
\* Task has no User history entry.
C10_EmptyMessageGuidance ==
  (Responded /\ IsLingflow /\ req.message = EmptyStr) =>
    /\ resp.kind = "returned"
    /\ EntryText(resp.body.result.status.message) = <<"P","l","e","a","s","e"," ","p","r","o","v","i","d","e"," ","a"," ","m","e","s","s","a","g","e"," ","f","o","r"," ","a","n","a","l","y","s","i","s",".">>
    /\ calls \cap {"keywords", "analyze_code", "explain_concept"} = {}
    /\ \A i \in 1..Len(resp.body.result.history) :
         resp.body.result.history[i].role # "user"

\* a message/send whose parts hold only whitespace was answered
C10_Witness ==
  /\ Responded /\ IsLingflow /\ req.message = EmptyStr
  /\ HasDocumentedParts /\ RequestParts # <<>>
  /\ resp.kind = "returned"

---------------------------------------------------------------------------
(* Properties of the Task built by create_jsonrpc_response *)

\* C11: every Task built by create_jsonrpc_response, whatever the state and
\* the reply, has an artifacts list of exactly one entry; the entry is named
\* "assistantResponse" and its text is the reply text the Task was built from.
C11_SingleArtifact ==
  (Responded /\ ReturnedTask) =>
    LET artifacts == resp.body.result.artifacts IN
    /\ Len(artifacts) = 1
    /\ artifacts[1].name = "assistantResponse"
    /\ Len(artifacts[1].parts) = 1
    /\ artifacts[1].parts[1].kind = "text"
    /\ IsBuilderCall => artifacts[1].parts[1].text = req.response_text
    /\ (IsLingflow /\ "process_user_message" \in calls)
         => artifacts[1].parts[1].text = process_user_message(req.message.v).text

\* a Task in a state that is neither completed nor failed was built from an
\* empty reply
C11_Witness ==
  /\ Responded /\ ReturnedTask /\ IsBuilderCall
  /\ req.state = "working" /\ req.response_text = <<>>
  /\ Len(resp.body.result.artifacts) = 1

---------------------------------------------------------------------------
(* Properties of reply composition *)

\* the reply text a response carries, or the exception in its place
TextOf(r) ==
  IF r.kind = "raised" THEN <<"raised", r.exc>>
  ELSE IF "result" \in DOMAIN r.body THEN EntryText(r.body.result.status.message)
  ELSE IF "data" \in DOMAIN r.body THEN r.body.data.message
  ELSE r.body.response

\* the response a process that has served nothing gives to the request
FreshResponse ==
  IF IsLingflow THEN handle_lingflow(req.body, 1).resp
  ELSE IF IsAppFlat THEN handle_agent(req.body, 1).resp
  ELSE handle_code_help(req.body, 1).resp

---------------------------------------------------------------------------
(* Properties of the analyzers *)

IsHelperAnalyzer == req.endpoint = "helper:analyze_code"
IsAppAnalyzer == req.endpoint = "app:analyze_code"

Range(f) == {f[i] : i \in DOMAIN f}

\* an analyzer was given code that is not blank, in a language that is a string
Analyzed ==
  /\ Responded /\ (IsHelperAnalyzer \/ IsAppAnalyzer)
  /\ Strip(req.code) # <<>> /\ IsStr(req.language)

LanguageIs(names) == Lower(req.language.v) \in names

LineCount == Len(SplitOn("\n", req.code))
HasFunctionMarker == Contains(req.code, <<"d","e","f"," ">>)

\* C13: for every language and every code body that is not blank, the
\* analyzer of telex_code_helper.py evaluates both size checks: the 'break
\* into smaller functions' improvement is there exactly when the code has more
\* than 50 lines, and the 'organize into functions' improvement exactly when
\* it has more than 10 lines and no function-definition marker.
C13_SizeChecksEveryLanguage ==
  (Analyzed /\ IsHelperAnalyzer) =>
    LET improvements == Range(resp.body.improvements) IN
    /\ LongCodeImprovement \in improvements <=> LineCount > 50
    /\ NoFunctionsImprovement \in improvements <=> (LineCount > 10 /\ ~HasFunctionMarker)

\* the patterns in their detection order, each with its issue and suggestion
HelperPatterns ==
  << [found |-> Contains(req.code, <<"i","m","p","o","r","t"," ","*">>),
      issue |-> "Avoid using 'import *' as it pollutes the namespace",
      suggestion |-> "Import specific functions/classes instead"],
     [found |-> Contains(req.code, <<"e","v","a","l","(">>),
      issue |-> "Use of eval() can be dangerous",
      suggestion |-> "Consider safer alternatives like ast.literal_eval()"],
     [found |-> Contains(req.code, <<"e","x","c","e","p","t",":">>) \/ Contains(req.code, <<"e","x","c","e","p","t"," ","E","x","c","e","p","t","i","o","n",":">>),
      issue |-> "Bare except clause may catch too many exceptions",
      suggestion |-> "Catch specific exceptions instead"] >>

AppPatterns ==
  << [found |-> Contains(req.code, <<"i","m","p","o","r","t"," ","*">>),
      issue |-> "Avoid 'import *' - it pollutes namespace",
      suggestion |-> "Import specific functions instead"],
     [found |-> Contains(req.code, <<"e","v","a","l","(">>),
      issue |-> "eval() can be dangerous",
      suggestion |-> "Use ast.literal_eval() or safer alternatives"],
     [found |-> Contains(req.code, <<"e","x","c","e","p","t",":">>),
      issue |-> "Bare except clause",
      suggestion |-> "Catch specific exceptions"] >>

Patterns == IF IsAppAnalyzer THEN AppPatterns ELSE HelperPatterns

\* the entries of the detected patterns, in detection order
RECURSIVE Detected(_, _)
Detected(patterns, field) ==
  IF patterns = <<>> THEN <<>>
  ELSE (IF Head(patterns).found THEN <<Head(patterns)[field]>> ELSE <<>>)
       \o Detected(Tail(patterns), field)

IssuesOf(dict) == IF IsAppAnalyzer THEN dict.issues ELSE dict.potential_issues

PythonAnalyzed == Analyzed /\ resp.kind = "returned" /\ LanguageIs({<<"p","y","t","h","o","n">>})

ConsoleLogIssue == "Remove console.log statements before production deployment"

MentionsTesting == Truthy(req.question) /\ Contains(Lower(req.question.v), <<"t","e","s","t">>)

\* C15: for JavaScript/TypeScript code the console.log issue is emitted
\* exactly when the code contains "console.log" and the request text does not
\* mention testing; this includes calls with no question.
C15_ConsoleLog ==
  (Analyzed /\ IsHelperAnalyzer /\ LanguageIs({<<"j","a","v","a","s","c","r","i","p","t">>, <<"t","y","p","e","s","c","r","i","p","t">>})) =>
    (ConsoleLogIssue \in Range(resp.body.potential_issues)
       <=> (Contains(req.code, <<"c","o","n","s","o","l","e",".","l","o","g">>) /\ ~MentionsTesting))

---------------------------------------------------------------------------
(* Properties of the replies to Explain and Analyze messages *)

KnowledgeBaseKeys == <<<<"o","o","p">>, <<"a","p","i">>, <<"r","e","s","t">>, <<"m","v","c">>, <<"d","o","c","k","e","r">>, <<"g","i","t">>>>

StopWords ==
  {<<"w","h","a","t">>, <<"i","s">>, <<"e","x","p","l","a","i","n">>, <<"h","o","w">>, <<"d","o","e","s">>, <<"w","o","r","k">>, <<"t","h","e">>, <<"a">>, <<"a","n">>}

\* the first of the keys that occurs in the case-folded message; else the
\* first word that is no stop word and longer than 2 characters; else the
\* placeholder
ConceptAfter(keys, message) ==
  LET lower == Lower(message)
      hits == {i \in 1..Len(keys) : Contains(lower, keys[i])}
      words == Words(lower)
      picks == {i \in 1..Len(words) : words[i] \notin StopWords /\ Len(words[i]) > 2}
  IN IF hits # {} THEN keys[CHOOSE i \in hits : \A j \in hits : i <= j]
     ELSE IF picks # {} THEN words[CHOOSE i \in picks : \A j \in picks : i <= j]
     ELSE <<"p","r","o","g","r","a","m","m","i","n","g"," ","c","o","n","c","e","p","t">>

StartsWith(text, prefix) ==
  Len(text) >= Len(prefix) /\ SubSeq(text, 1, Len(prefix)) = prefix

\* an Explain message was answered with an explanation
Explained == Responded /\ branch = "Explain" /\ resp.kind = "returned" /\ resp.code = 200

\* C16: the concept an Explain reply is about is the first knowledge-base key
\* (oop, api, rest, mvc, docker, git) that occurs in the case-folded message;
\* only if none occurs, the first word that is no stop word and is longer than
\* 2 characters; only if there is none, the placeholder. No other keyword
\* comes before the first-word fallback.
C16_ConceptToken ==
  Explained =>
    LET concept == ConceptAfter(KnowledgeBaseKeys, req.message.v) IN
    /\ IsHelperFlat =>
         StartsWith(TextOf(resp), <<"**Explanation: ">> \o Title(concept) \o <<"*","*","\n","\n">>)
    /\ (IsLingflow \/ IsAppFlat) =>
         StartsWith(TextOf(resp), <<"**">> \o Upper(concept) \o <<" ","E","x","p","l","a","n","a","t","i","o","n","*","*","\n","\n">>)

SyntaxMarkers ==
  {<<"d","e","f"," ">>, <<"c","l","a","s","s"," ">>, <<"f","u","n","c","t","i","o","n"," ">>, <<"i","m","p","o","r","t"," ">>, <<"v","a","r"," ">>, <<"l","e","t"," ">>,
   <<"c","o","n","s","t"," ">>, <<"p","u","b","l","i","c"," ">>, <<"p","r","i","v","a","t","e"," ">>}

\* the message counts as code
LooksLikeCode(message) ==
  \/ \E marker \in SyntaxMarkers : Contains(message, marker)
  \/ Contains(message, <<"\n">>) /\ Len(message) > 20

\* an Analyze message was answered by telex_code_helper.py
AnalyzeAnswered ==
  /\ Responded /\ IsHelperFlat /\ branch = "Analyze"
  /\ resp.kind = "returned" /\ resp.code = 200

RequestLanguage == Get(Get(req.body, "context", EmptyObj), "language", JStr(<<"p","y","t","h","o","n">>))

\* what the analyzer returns for the message
MessageAnalysis == analyze_code(req.message.v, RequestLanguage, req.message)

\* a section as the reply shows it, layout left out: its heading, then its
\* items; nothing for an empty list
Shown(heading, items) == IF items = <<>> THEN <<>> ELSE <<heading>> \o items

Layout == {"\n", "* "}

\* C17: the reply to an Analyze message that has none of the syntax markers
\* and is not both multi-line and longer than 20 characters asks for the code,
\* and the analyzer is not called; the reply to any other Analyze message is
\* the summary, then the issues, suggestions and improvements sections in that
\* order, a heading being there exactly when its list is not empty, the items
\* in the analyzer's order.
C17_AnalyzeReply ==
  AnalyzeAnswered =>
    LET text == resp.body.response
        summary == <<"**Code Analysis for ">> \o Title(RequestLanguage.v) \o <<"*","*","\n","\n">>
                     \o <<"**Analysis:** ">> \o MessageAnalysis.analysis \o <<"\n","\n">>
    IN IF ~LooksLikeCode(req.message.v)
       THEN /\ text = <<"Please provide the code you'd like me to analyze. You can paste it directly in your message.">>
            /\ "analyze_code" \notin calls
       ELSE /\ "analyze_code" \in calls
            /\ StartsWith(text, summary)
            /\ SelectSeq(SubSeq(text, Len(summary) + 1, Len(text)), LAMBDA x : x \notin Layout)
                 = Shown("**Potential Issues:**", MessageAnalysis.potential_issues)
                   \o Shown("**Suggestions:**", MessageAnalysis.suggestions)
                   \o Shown("**Improvements:**", MessageAnalysis.improvements)

\* a message with code got a reply of three sections
C17_Witness ==
  /\ AnalyzeAnswered /\ LooksLikeCode(req.message.v)
  /\ MessageAnalysis.potential_issues # <<>>
  /\ MessageAnalysis.suggestions # <<>>
  /\ MessageAnalysis.improvements # <<>>
  /\ "**Improvements:**" \in Range(resp.body.response)

---------------------------------------------------------------------------
(* Consistency of the Task envelope *)

\* C18: in every Task of create_jsonrpc_response the reply text of
\* status.message, of the Agent history entry and of the single artifact are
\* the same; the Agent history entry and status.message carry the Task's id as
\* taskId and a User history entry carries none; the Agent entry is the last
\* entry of the history, and the only Agent entry.
C18_EnvelopeConsistency ==
  (Responded /\ ReturnedTask) =>
    LET task == resp.body.result
        history == task.history
        last == history[Len(history)]
    IN /\ Len(history) >= 1
       /\ Len(task.artifacts) = 1
       /\ last.role = "agent"
       /\ task.status.message.role = "agent"
       /\ EntryText(last) = EntryText(task.status.message)
       /\ task.artifacts[1].parts[1].text = EntryText(task.status.message)
       /\ last.taskId = task.id
       /\ task.status.message.taskId = task.id
       /\ \A i \in 1..Len(history) :
            /\ history[i].role = "user" => history[i].taskId = JNull
            /\ i < Len(history) => history[i].role = "user"

\* the endpoint returned a completed Task whose history has a User entry
\* before the Agent entry
C18_Witness ==
  /\ Responded /\ ReturnedTask /\ IsLingflow
  /\ Len(resp.body.result.history) = 2
  /\ resp.body.result.history[1].role = "user"
  /\ resp.body.result.history[1].taskId = JNull
  /\ resp.body.result.history[2].taskId = resp.body.result.id

====
